---- MODULE Spec2Model ----
(***************************************************************************)
(* The C API of the StatsCalculator class: a global std::map from integer  *)
(* handles to StatsCalculator instances, and the extern "C" functions that *)
(* create, destroy, mutate and query the instances by handle.              *)
(*                                                                         *)
(* A StatsCalculator is modelled by its only data member, numericValues,   *)
(* a sequence of numbers.  A double is modelled by an exact value: a       *)
(* record [kind, n, d] that is the rational n/d ("rat"), the square root   *)
(* of the rational n/d ("sqrt"), or not-a-number ("nan").                  *)
(***************************************************************************)
EXTENDS Integers, Sequences, FiniteSets, TLC

\* Largest key statsCalcCreate is allowed to assign in the model.
MaxHandle == 2
\* Largest number of create calls and effective destroy calls in one run.
MaxLog == 4
\* Largest number of values the instances hold together in the model.
MaxSamples == 2
\* Largest number of values of the instance whose statistics are computed.
MaxStatsLen == 3

VARIABLES
    statsCalculators,   \* the global std::map<int, StatsCalculator>
    call,               \* the last C API call: [op, handle]
    ret,                \* what the last call returned
    escaped,            \* the exception that left the last call, or "none"
    io,                 \* what the last call wrote to its output file
    log,                \* history: the create calls and the effective destroy calls
    appended,           \* history: per handle returned by create and not destroyed
                        \* since, the values the caller has passed for it
    before              \* history: the map before the last call, as <<map>>, when
                        \* that call was statsCalcCreate, else << >>

vars == <<statsCalculators, call, ret, escaped, io, log, appended, before>>

(***************************************************************************)
(* Values                                                                  *)
(***************************************************************************)
\* The values a caller appends.
Values == {2, 4}

\* The handles a caller passes: the keys that can be live, and MaxHandle + 1,
\* which never is.
HandleArgs == 0..(MaxHandle + 1)

RECURSIVE GCD(_, _)
GCD(a, b) == IF b = 0 THEN a ELSE GCD(b, a % b)

Abs(x) == IF x < 0 THEN -x ELSE x

\* The double n/d, in lowest terms (d > 0).
Rat(n, d) == LET g == GCD(Abs(n), d)
             IN [kind |-> "rat", n |-> n \div g, d |-> d \div g]

\* The literal 0.0.
Zero == [kind |-> "rat", n |-> 0, d |-> 1]

\* The result of 0.0 / 0.
NaN == [kind |-> "nan", n |-> 0, d |-> 0]

\* An int return value.
IntVal(k) == [kind |-> "int", n |-> k, d |-> 1]

\* The return of a void function.
Void == [kind |-> "void", n |-> 0, d |-> 1]

\* The integer square root of k when k is a perfect square, else -1.
ISqrt(k) == IF \E r \in 0..k : r * r = k
            THEN CHOOSE r \in 0..k : r * r = k
            ELSE -1

\* sqrt of the rational n/d (n >= 0, d > 0, lowest terms).
SqrtOf(n, d) == IF ISqrt(n) >= 0 /\ ISqrt(d) >= 0
                THEN [kind |-> "rat", n |-> ISqrt(n), d |-> ISqrt(d)]
                ELSE [kind |-> "sqrt", n |-> n, d |-> d]

(***************************************************************************)
(* class StatsCalculator                                                   *)
(***************************************************************************)
\* StatsCalculator(): numericValues starts empty.
StatsCalculator == << >>

\* The append when the value is inserted at begin().
appendValue_front(numericValues, value) == <<value>> \o numericValues

\* appendValue(value): push_back on numericValues.
appendValue(numericValues, value) == Append(numericValues, value)

\* computeSum(): left-to-right accumulation from 0.0.
RECURSIVE computeSum(_)
computeSum(numericValues) ==
    IF numericValues = << >> THEN 0
    ELSE computeSum(SubSeq(numericValues, 1, Len(numericValues) - 1))
         + numericValues[Len(numericValues)]

getSum(numericValues) == Rat(computeSum(numericValues), 1)

\* getMean(): sum / count; 0.0 / 0 is NaN.
getMean(numericValues) ==
    IF Len(numericValues) = 0 THEN NaN
    ELSE Rat(computeSum(numericValues), Len(numericValues))

\* The sum over the values of (count * x - sum)^2, which is count^2 times the
\* sum of the squared deviations from the mean.
RECURSIVE ScaledSquares(_, _, _)
ScaledSquares(numericValues, count, sum) ==
    IF numericValues = << >> THEN 0
    ELSE ScaledSquares(SubSeq(numericValues, 1, Len(numericValues) - 1), count, sum)
         + (count * numericValues[Len(numericValues)] - sum)
           * (count * numericValues[Len(numericValues)] - sum)

\* getStandardDeviation(): sqrt(sum((x - mean)^2) / count), NaN when empty.
getStandardDeviation(numericValues) ==
    IF Len(numericValues) = 0 THEN NaN
    ELSE LET count == Len(numericValues)
             var == Rat(ScaledSquares(numericValues, count, computeSum(numericValues)),
                        count * count * count)
         IN SqrtOf(var.n, var.d)

\* What the files hold: a file that cannot be opened or is empty yields no
\* value.
FileContents == {<< >>, <<2>>, <<4, 2>>}

\* readFile(fileName): appends the values of the file, in order.
readFile(numericValues, content) == numericValues \o content

\* writeStats(fileName): the summary written to the file.
writeStats(numericValues) ==
    << getSum(numericValues), getMean(numericValues), getStandardDeviation(numericValues) >>

(***************************************************************************)
(* The registry                                                            *)
(***************************************************************************)
Live == DOMAIN statsCalculators

\* The number of values the instances of m hold together.
RECURSIVE TotalSamples(_)
TotalSamples(m) ==
    IF DOMAIN m = {} THEN 0
    ELSE LET k == CHOOSE k \in DOMAIN m : TRUE
         IN Len(m[k]) + TotalSamples([j \in DOMAIN m \ {k} |-> m[j]])

Max(S) == CHOOSE x \in S : \A y \in S : y <= x

EmptyMap == [k \in {} |-> StatsCalculator]

\* The key when size() is taken for the largest key.
NextKey_size(m) == Cardinality(DOMAIN m)

\* The key when begin() is read instead of rbegin().
NextKey_begin(m) ==
    IF DOMAIN m = {} THEN 0
    ELSE (CHOOSE x \in DOMAIN m : \A y \in DOMAIN m : x <= y) + 1

\* int key = statsCalculators.empty() ? 0 : statsCalculators.rbegin()->first + 1;
NextKey(m) == IF DOMAIN m = {} THEN 0 ELSE Max(DOMAIN m) + 1

\* std::map::emplace_hint: inserts the pair unless the key is present.
EmplaceHint(m, key, value) ==
    IF key \in DOMAIN m THEN m
    ELSE [k \in DOMAIN m \cup {key} |-> IF k = key THEN value ELSE m[k]]

\* The erase when it acts on a copy of the map.
Erase_copy(m, handle) == m

\* The erase when clear() is called.
Erase_clear(m, handle) == EmptyMap

\* std::map::find followed by erase when found.
Erase(m, handle) == [k \in DOMAIN m \ {handle} |-> m[k]]

\* std::map::at: the exception it throws, or "none".
At(m, handle) == IF handle \in DOMAIN m THEN "none" ELSE "out_of_range"

\* The handler when it names another exception type.
Catches_length(exception) == exception = "length_error"

\* catch(std::out_of_range & exception)
Catches(exception) == exception = "out_of_range"

\* A history entry: the call, the key it returned or was given, the keys live
\* when it was made, and whether the instance it destroyed held values.
CreateEntry(key, live) ==
    [op |-> "create", handle |-> key, live |-> live, hadSamples |-> FALSE]

DestroyEntry(handle, live, numericValues) ==
    [op |-> "destroy", handle |-> handle, live |-> live,
     hadSamples |-> numericValues # << >>]

\* The history of passed values after the caller passed `values` for `handle`:
\* a handle just returned by create starts afresh, and values passed for a
\* handle that no create returned, or that was destroyed since, are not kept.
Passed(history, handle, values, created) ==
    IF created
    THEN [k \in DOMAIN history \cup {handle} |->
            IF k = handle THEN values ELSE history[k]]
    ELSE IF handle \in DOMAIN history
    THEN [history EXCEPT ![handle] = @ \o values]
    ELSE history

Init ==
    /\ statsCalculators = EmptyMap
    /\ call = [op |-> "none", handle |-> 0]
    /\ ret = Void
    /\ escaped = "none"
    /\ io = << >>
    /\ log = << >>
    /\ appended = EmptyMap
    /\ before = << >>

statsCalcCreate ==
    LET key == NextKey(statsCalculators)
        created == EmplaceHint(statsCalculators, key, StatsCalculator)
    IN /\ key <= MaxHandle
       /\ Len(log) < MaxLog
       /\ statsCalculators' = created
       /\ call' = [op |-> "create", handle |-> 0]
       /\ ret' = IntVal(key)
       /\ escaped' = "none"
       /\ io' = << >>
       /\ log' = Append(log, CreateEntry(key, Live))
       /\ appended' = Passed(appended, key, << >>, TRUE)
       /\ before' = <<statsCalculators>>

statsCalcDestroy(handle) ==
    /\ handle \in Live => Len(log) < MaxLog
    /\ statsCalculators' = IF handle \in Live
                           THEN Erase(statsCalculators, handle)
                           ELSE statsCalculators
    /\ call' = [op |-> "destroy", handle |-> handle]
    /\ ret' = Void
    /\ escaped' = "none"
    /\ io' = << >>
    /\ log' = IF handle \in Live
              THEN Append(log, DestroyEntry(handle, Live, statsCalculators[handle]))
              ELSE log
    /\ appended' = [k \in DOMAIN appended \ {handle} |-> appended[k]]
    /\ before' = << >>

\* The append when operator[] is used for at(): an absent key is inserted.
statsCalcAppendValue_subscript(handle, value) ==
    /\ TotalSamples(statsCalculators) < MaxSamples
    /\ statsCalculators' =
         [k \in Live \cup {handle} |->
            IF k = handle
            THEN appendValue(IF k \in Live THEN statsCalculators[k] ELSE StatsCalculator,
                             value)
            ELSE statsCalculators[k]]
    /\ call' = [op |-> "append", handle |-> handle]
    /\ ret' = Void
    /\ escaped' = "none"
    /\ io' = << >>
    /\ appended' = Passed(appended, handle, <<value>>, FALSE)
    /\ before' = << >>
    /\ UNCHANGED log

\* The append when, after the lookup, the value goes to begin()->second.
statsCalcAppendValue_begin(handle, value) ==
    LET exception == At(statsCalculators, handle)
        first == CHOOSE x \in Live : \A y \in Live : x <= y
    IN /\ handle \in Live => TotalSamples(statsCalculators) < MaxSamples
       /\ statsCalculators' =
            IF exception = "none"
            THEN [statsCalculators EXCEPT ![first] = appendValue(@, value)]
            ELSE statsCalculators
       /\ call' = [op |-> "append", handle |-> handle]
       /\ ret' = Void
       /\ escaped' = IF Catches(exception) THEN "none" ELSE exception
       /\ io' = << >>
       /\ appended' = Passed(appended, handle, <<value>>, FALSE)
       /\ before' = << >>
       /\ UNCHANGED log

statsCalcAppendValue(handle, value) ==
    LET exception == At(statsCalculators, handle)
    IN /\ handle \in Live => TotalSamples(statsCalculators) < MaxSamples
       /\ statsCalculators' =
            IF exception = "none"
            THEN [statsCalculators EXCEPT ![handle] = appendValue(@, value)]
            ELSE statsCalculators
       /\ call' = [op |-> "append", handle |-> handle]
       /\ ret' = Void
       /\ escaped' = IF Catches(exception) THEN "none" ELSE exception
       /\ io' = << >>
       /\ appended' = Passed(appended, handle, <<value>>, FALSE)
       /\ before' = << >>
       /\ UNCHANGED log

statsCalcReadFile(handle, content) ==
    LET exception == At(statsCalculators, handle)
    IN /\ handle \in Live => TotalSamples(statsCalculators) + Len(content) <= MaxSamples
       /\ statsCalculators' =
            IF exception = "none"
            THEN [statsCalculators EXCEPT ![handle] = readFile(@, content)]
            ELSE statsCalculators
       /\ call' = [op |-> "readFile", handle |-> handle]
       /\ ret' = Void
       /\ escaped' = IF Catches(exception) THEN "none" ELSE exception
       /\ io' = << >>
       /\ appended' = Passed(appended, handle, content, FALSE)
       /\ before' = << >>
       /\ UNCHANGED log

statsCalcWriteStats(handle) ==
    LET exception == At(statsCalculators, handle)
    IN /\ call' = [op |-> "writeStats", handle |-> handle]
       /\ ret' = Void
       /\ escaped' = IF Catches(exception) THEN "none" ELSE exception
       /\ io' = IF exception = "none" THEN writeStats(statsCalculators[handle]) ELSE << >>
       /\ before' = << >>
       /\ UNCHANGED <<statsCalculators, log, appended>>

\* The query when operator[] is used for at(): an absent key is inserted.
statsCalcGetSum_subscript(handle) ==
    /\ statsCalculators' = EmplaceHint(statsCalculators, handle, StatsCalculator)
    /\ call' = [op |-> "getSum", handle |-> handle]
    /\ ret' = getSum(statsCalculators'[handle])
    /\ escaped' = "none"
    /\ io' = << >>
    /\ before' = << >>
    /\ UNCHANGED <<log, appended>>

statsCalcGetSum(handle) ==
    LET exception == At(statsCalculators, handle)
    IN /\ call' = [op |-> "getSum", handle |-> handle]
       /\ ret' = IF exception = "none" THEN getSum(statsCalculators[handle])
                 ELSE IF Catches(exception) THEN Zero ELSE Void
       /\ escaped' = IF Catches(exception) THEN "none" ELSE exception
       /\ io' = << >>
       /\ before' = << >>
       /\ UNCHANGED <<statsCalculators, log, appended>>

\* The query when it calls getSum() for getMean().
statsCalcGetMean_sum(handle) ==
    LET exception == At(statsCalculators, handle)
    IN /\ call' = [op |-> "getMean", handle |-> handle]
       /\ ret' = IF exception = "none" THEN getSum(statsCalculators[handle])
                 ELSE IF Catches(exception) THEN Zero ELSE Void
       /\ escaped' = IF Catches(exception) THEN "none" ELSE exception
       /\ io' = << >>
       /\ before' = << >>
       /\ UNCHANGED <<statsCalculators, log, appended>>

statsCalcGetMean(handle) ==
    LET exception == At(statsCalculators, handle)
    IN /\ call' = [op |-> "getMean", handle |-> handle]
       /\ ret' = IF exception = "none" THEN getMean(statsCalculators[handle])
                 ELSE IF Catches(exception) THEN Zero ELSE Void
       /\ escaped' = IF Catches(exception) THEN "none" ELSE exception
       /\ io' = << >>
       /\ before' = << >>
       /\ UNCHANGED <<statsCalculators, log, appended>>

\* The query when it calls getMean() for getStandardDeviation().
statsCalcGetStdDev_mean(handle) ==
    LET exception == At(statsCalculators, handle)
    IN /\ call' = [op |-> "getStdDev", handle |-> handle]
       /\ ret' = IF exception = "none" THEN getMean(statsCalculators[handle])
                 ELSE IF Catches(exception) THEN Zero ELSE Void
       /\ escaped' = IF Catches(exception) THEN "none" ELSE exception
       /\ io' = << >>
       /\ before' = << >>
       /\ UNCHANGED <<statsCalculators, log, appended>>

statsCalcGetStdDev(handle) ==
    LET exception == At(statsCalculators, handle)
    IN /\ call' = [op |-> "getStdDev", handle |-> handle]
       /\ ret' = IF exception = "none" THEN getStandardDeviation(statsCalculators[handle])
                 ELSE IF Catches(exception) THEN Zero ELSE Void
       /\ escaped' = IF Catches(exception) THEN "none" ELSE exception
       /\ io' = << >>
       /\ before' = << >>
       /\ UNCHANGED <<statsCalculators, log, appended>>

Next ==
    \/ statsCalcCreate
    \/ \E handle \in HandleArgs : statsCalcDestroy(handle)
    \/ \E handle \in HandleArgs, value \in Values : statsCalcAppendValue(handle, value)
    \/ \E handle \in HandleArgs, content \in FileContents : statsCalcReadFile(handle, content)
    \/ \E handle \in HandleArgs : statsCalcWriteStats(handle)
    \/ \E handle \in HandleArgs : statsCalcGetSum(handle)
    \/ \E handle \in HandleArgs : statsCalcGetMean(handle)
    \/ \E handle \in HandleArgs : statsCalcGetStdDev(handle)

Spec == Init /\ [][Next]_vars

(***************************************************************************)
(* The statistics of one instance: handle 0 after statsCalcCreate and the  *)
(* appends of any sequence of at most MaxStatsLen of the values 2, 4, 6,   *)
(* then queried.                                                           *)
(***************************************************************************)
StatsValues == {2, 4, 6}

StatsSamples == UNION {[1..k -> StatsValues] : k \in 0..MaxStatsLen}

InitStats ==
    \E samples \in StatsSamples :
        /\ statsCalculators = [k \in {0} |-> samples]
        /\ call = IF samples = << >> THEN [op |-> "create", handle |-> 0]
                  ELSE [op |-> "append", handle |-> 0]
        /\ ret = IF samples = << >> THEN IntVal(0) ELSE Void
        /\ escaped = "none"
        /\ io = << >>
        /\ log = <<CreateEntry(0, {})>>
        /\ appended = [k \in {0} |-> samples]
        /\ before = IF samples = << >> THEN <<EmptyMap>> ELSE << >>

NextStats ==
    \/ \E handle \in {0, 1} : statsCalcWriteStats(handle)
    \/ \E handle \in {0, 1} : statsCalcGetSum(handle)
    \/ \E handle \in {0, 1} : statsCalcGetMean(handle)
    \/ \E handle \in {0, 1} : statsCalcGetStdDev(handle)

SpecStats == InitStats /\ [][NextStats]_vars

(***************************************************************************)
(* Properties                                                              *)
(***************************************************************************)
IsCreate(e) == e.op = "create"

IsDestroy(e) == e.op = "destroy"

\* The create calls of the history, in order.
Creates == SelectSeq(log, IsCreate)

Queries == {"getSum", "getMean", "getStdDev"}

Mutators == {"append", "readFile", "writeStats"}

\* C1: statsCalcCreate returns 0 when no handle is live and otherwise the
\* largest live handle plus one, and the handle it returns is live afterwards.
CreateReturnsMaxPlusOne ==
    [][call'.op = "create" =>
         /\ ret'.kind = "int"
         /\ Live = {} => ret'.n = 0
         /\ Live # {} => /\ ret'.n - 1 \in Live
                         /\ \A h \in Live : h < ret'.n
         /\ ret'.n \in DOMAIN statsCalculators']_vars

\* A create that returned 2 while 1 was the only live handle.
CreateAboveGapReached ==
    /\ call.op = "create"
    /\ ret = IntVal(2)
    /\ log[Len(log)].live = {1}
    /\ Live = {1, 2}

\* C2 as stated: the handles returned by create are strictly increasing over
\* the whole run, so none is returned twice, and the first one is 0.
HandlesStrictlyIncreasing ==
    /\ Creates # << >> => Creates[1].handle = 0
    /\ \A i, j \in 1..Len(Creates) : i < j => Creates[i].handle < Creates[j].handle

\* C2 as amended: the first create returns 0 and every create returns a
\* handle strictly greater than every handle live at the time of the call.
HandlesAboveLive ==
    /\ Creates # << >> => Creates[1].handle = 0
    /\ \A i \in 1..Len(Creates) : \A h \in Creates[i].live : h < Creates[i].handle

\* A handle value returned by two create calls, other handles live meanwhile.
HandleReturnedTwice ==
    \E i, j \in 1..Len(Creates) :
        /\ i < j
        /\ Creates[i].handle = Creates[j].handle
        /\ Creates[j].live # {}

\* The history starts with two create calls.
TwoCreates ==
    /\ Len(log) >= 2
    /\ IsCreate(log[1])
    /\ IsCreate(log[2])

\* The history starts with two create calls, the destroy of handle 0 and a
\* third create call.
CreateCreateDestroyCreate ==
    /\ Len(log) >= 4
    /\ TwoCreates
    /\ IsDestroy(log[3]) /\ log[3].handle = 0
    /\ IsCreate(log[4])

\* C3 as stated: two creates return 0 and 1, and after the destroy of 0 the
\* next create returns 0.
ScenarioReturnsZero ==
    /\ TwoCreates => log[1].handle = 0 /\ log[2].handle = 1
    /\ CreateCreateDestroyCreate => log[4].live = {1} /\ log[4].handle = 0

\* C3 as amended: two creates return 0 and 1, and after the destroy of 0,
\* with 1 still live, the next create returns 2.
ScenarioReturnsTwo ==
    /\ TwoCreates => log[1].handle = 0 /\ log[2].handle = 1
    /\ CreateCreateDestroyCreate => log[4].live = {1} /\ log[4].handle = 2

\* The scenario of C3 has run and its instances are live.
ScenarioReached ==
    /\ CreateCreateDestroyCreate
    /\ Len(log) = 4
    /\ Live = {1, 2}

\* The handles the create calls before history entry j returned.
ReturnedBefore(j) == {log[i].handle : i \in {i \in 1..(j - 1) : IsCreate(log[i])}}

\* Entry i destroys handle 0, the only live handle, and entry i + 1 is the
\* next create.
DestroyOnlyZeroThenCreate(i) ==
    /\ i + 1 <= Len(log)
    /\ IsDestroy(log[i]) /\ log[i].handle = 0 /\ log[i].live = {0}
    /\ IsCreate(log[i + 1])

\* C4: a create after the destroy of handle 0, the only live handle, returns
\* 0 again; and a create returns an earlier returned handle h exactly when h
\* is the largest live handle plus one, or no handle is live and h is 0.
ReuseExactlyAtMaxPlusOne ==
    /\ \A i \in 1..Len(log) : DestroyOnlyZeroThenCreate(i) => log[i + 1].handle = 0
    /\ \A j \in 1..Len(log) :
         IsCreate(log[j]) =>
           \A h \in ReturnedBefore(j) :
             (log[j].handle = h) <=>
               \/ log[j].live = {} /\ h = 0
               \/ log[j].live # {} /\ h = Max(log[j].live) + 1

\* Handle 0 was destroyed as the only live handle, the next create returned
\* it again, and a later create returned a handle never returned before.
ReuseOfZeroReached ==
    /\ \E i \in 1..Len(log) : DestroyOnlyZeroThenCreate(i) /\ i + 2 = Len(log)
    /\ IsCreate(log[Len(log)])
    /\ log[Len(log)].handle \notin ReturnedBefore(Len(log))

\* Entry i is a create made with no handle live and entry i + 1 the destroy
\* of the handle it returned.
CreateThenDestroy(i) ==
    /\ i + 1 <= Len(log)
    /\ IsCreate(log[i]) /\ log[i].live = {}
    /\ IsDestroy(log[i + 1]) /\ log[i + 1].handle = log[i].handle

\* C5: a create made with no handle live, followed by the destroy of the
\* handle it returned, leaves the registry as it was: empty, the instance
\* absent, and the next create returns the same handle again.
RoundTripRestoresEmpty ==
    \A i \in 1..Len(log) :
      CreateThenDestroy(i) =>
        /\ i + 1 = Len(log) =>
             /\ statsCalculators = EmptyMap
             /\ log[i].handle \notin Live
        /\ i + 2 <= Len(log) =>
             /\ log[i + 2].live = log[i].live
             /\ IsCreate(log[i + 2])
             /\ log[i + 2].handle = log[i].handle

\* The destroy of a round trip has just returned; values were appended in
\* between.
RoundTripReached ==
    /\ call.op = "destroy"
    /\ Len(log) = 2
    /\ CreateThenDestroy(1)
    /\ log[2].hadSamples

\* C6: statsCalcGetSum, statsCalcGetMean and statsCalcGetStdDev on a handle
\* that is not live return 0.0 and let no exception out.
UnknownQueryReturnsZero ==
    [][(call'.op \in Queries /\ call'.handle \notin Live) =>
         /\ ret' = Zero
         /\ escaped' = "none"]_vars

\* statsCalcGetStdDev has returned for a handle that was destroyed with its
\* values, while another instance holds values.
DestroyedHandleQueried ==
    /\ call.op = "getStdDev"
    /\ call.handle \notin Live
    /\ \E i \in 1..Len(log) :
         IsDestroy(log[i]) /\ log[i].handle = call.handle /\ log[i].hadSamples
    /\ \E k \in Live : statsCalculators[k] # << >>

\* C7: statsCalcAppendValue, statsCalcReadFile and statsCalcWriteStats on a
\* handle that is not live change nothing in the registry, insert no entry
\* for the handle, write nothing and let no exception out.
UnknownMutatorIsNoOp ==
    [][(call'.op \in Mutators /\ call'.handle \notin Live) =>
         /\ statsCalculators' = statsCalculators
         /\ call'.handle \notin DOMAIN statsCalculators'
         /\ io' = << >>
         /\ escaped' = "none"]_vars

\* statsCalcAppendValue has returned for a handle that is not live, while a
\* live instance holds values.
UnknownHandleAppended ==
    /\ call.op = "append"
    /\ call.handle \notin Live
    /\ \E k \in Live : Len(statsCalculators[k]) = 2

\* C8: statsCalcDestroy(h) removes the entry of h and no other when h is
\* live, leaves the registry unchanged when h is not, and lets no exception
\* out.
DestroyRemovesExactlyOne ==
    [][call'.op = "destroy" =>
         /\ call'.handle \in Live =>
              /\ DOMAIN statsCalculators' = Live \ {call'.handle}
              /\ \A k \in Live \ {call'.handle} :
                   statsCalculators'[k] = statsCalculators[k]
         /\ call'.handle \notin Live => statsCalculators' = statsCalculators
         /\ escaped' = "none"]_vars

\* A live handle was just destroyed while two other instances are live, one
\* of them holding values.
DestroyedAmongOthers ==
    /\ call.op = "destroy"
    /\ log # << >>
    /\ IsDestroy(log[Len(log)])
    /\ log[Len(log)].handle = call.handle
    /\ Cardinality(Live) = 2
    /\ \E k \in Live : statsCalculators[k] # << >>

\* C9: the handle statsCalcCreate returns is not live at the time of the
\* call: the call adds one entry, keeps every other entry as it is, and every
\* live handle is a non-negative integer.
CreateNeverAliases ==
    [][call'.op = "create" =>
         /\ ret'.n \notin Live
         /\ Cardinality(DOMAIN statsCalculators') = Cardinality(Live) + 1
         /\ \A k \in Live :
              /\ k \in DOMAIN statsCalculators'
              /\ statsCalculators'[k] = statsCalculators[k]
         /\ \A k \in DOMAIN statsCalculators' : k \in Nat]_vars

\* A create has returned while two other instances were live, one of them
\* holding values.
CreatedBesideOthers ==
    /\ call.op = "create"
    /\ Cardinality(Live) = 3
    /\ \E k \in Live : statsCalculators[k] # << >>

\* C10: the instance of a handle statsCalcCreate has just returned holds no
\* value, and statsCalcGetSum called next on that handle returns 0.0.
CreatedInstanceIsEmpty ==
    [][/\ call'.op = "create" =>
            /\ ret'.n \in DOMAIN statsCalculators'
            /\ statsCalculators'[ret'.n] = << >>
       /\ (call.op = "create" /\ call'.op = "getSum" /\ call'.handle = ret.n) =>
            ret' = Zero]_vars

\* statsCalcGetSum has returned 0.0 for a live handle whose value an earlier
\* instance, destroyed with its values, had.
ReusedHandleSummed ==
    /\ call.op = "getSum"
    /\ call.handle \in Live
    /\ ret = Zero
    /\ log # << >>
    /\ IsCreate(log[Len(log)])
    /\ log[Len(log)].handle = call.handle
    /\ \E i \in 1..Len(log) :
         IsDestroy(log[i]) /\ log[i].handle = call.handle /\ log[i].hadSamples

\* The sum of the values, accumulated from acc from left to right.
RECURSIVE SumLeft(_, _)
SumLeft(acc, values) ==
    IF values = << >> THEN acc ELSE SumLeft(acc + Head(values), Tail(values))

\* C11: statsCalcGetSum on a live handle returns the left-to-right sum of
\* exactly the values passed for that handle since the create that returned
\* it, in the order they were passed.
SumIsOfAppendedValues ==
    [][(call'.op = "getSum" /\ call'.handle \in Live) =>
         /\ call'.handle \in DOMAIN appended
         /\ ret' = [kind |-> "rat", n |-> SumLeft(0, appended[call'.handle]), d |-> 1]]_vars

\* statsCalcGetSum has returned 4 for a handle that an earlier instance,
\* destroyed with its values, had, while another instance holds the value 2.
OwnValuesSummed ==
    /\ call.op = "getSum"
    /\ call.handle \in Live
    /\ ret = [kind |-> "rat", n |-> 4, d |-> 1]
    /\ \E i \in 1..Len(log) :
         IsDestroy(log[i]) /\ log[i].handle = call.handle /\ log[i].hadSamples
    /\ \E k \in Live \ {call.handle} : statsCalculators[k] = <<2>>

\* C12: statsCalcGetMean and statsCalcGetStdDev on a live handle whose
\* instance holds no value return NaN, which is not the 0.0 an unknown handle
\* gets.
EmptyMeanIsNaN ==
    [][(/\ call'.op \in {"getMean", "getStdDev"}
        /\ call'.handle \in Live
        /\ statsCalculators[call'.handle] = << >>) =>
         /\ ret'.kind = "nan"
         /\ ret' # Zero
         /\ escaped' = "none"]_vars

\* statsCalcGetStdDev has returned NaN for a live instance that holds no
\* value, beside an instance that holds values.
EmptyInstanceQueried ==
    /\ call.op = "getStdDev"
    /\ call.handle \in Live
    /\ statsCalculators[call.handle] = << >>
    /\ ret = NaN
    /\ \E k \in Live : statsCalculators[k] # << >>

\* s is t or a beginning of t.
IsPrefix(s, t) == Len(s) <= Len(t) /\ SubSeq(t, 1, Len(s)) = s

\* C14: a call leaves the values of every instance that stays live as they
\* are or adds values at their end: the sequence before is a prefix of the
\* sequence after, and its length does not decrease.
SamplesOnlyGrow ==
    [][\A h \in Live \cap DOMAIN statsCalculators' :
         /\ IsPrefix(statsCalculators[h], statsCalculators'[h])
         /\ Len(statsCalculators[h]) <= Len(statsCalculators'[h])]_vars

\* statsCalcAppendValue has added 4 to an instance that held the value 2.
InstanceGrew ==
    /\ call.op = "append"
    /\ call.handle \in Live
    /\ statsCalculators[call.handle] = <<2, 4>>
    /\ Cardinality(Live) = 2

\* C15: statsCalcAppendValue(h, v) on a live handle h adds v at the end of
\* the values of h and changes neither the live handles nor the values of any
\* other instance.
AppendTouchesOneInstance ==
    [][(call'.op = "append" /\ call'.handle \in Live) =>
         /\ DOMAIN statsCalculators' = Live
         /\ \A k \in Live \ {call'.handle} : statsCalculators'[k] = statsCalculators[k]
         /\ call'.handle \in DOMAIN appended'
         /\ appended'[call'.handle] # << >>
         /\ statsCalculators'[call'.handle] =
              Append(statsCalculators[call'.handle],
                     appended'[call'.handle][Len(appended'[call'.handle])])]_vars

\* statsCalcAppendValue has added 4 to the instance of the largest of three
\* live handles, while another instance holds the value 2.
AppendedBesideOthers ==
    /\ call.op = "append"
    /\ Cardinality(Live) = 3
    /\ call.handle = Max(Live)
    /\ statsCalculators[call.handle] = <<4>>
    /\ \E k \in Live : statsCalculators[k] = <<2>>

\* The handles live after the last create or effective destroy of history h.
LiveAfter(h) ==
    IF h = << >> THEN {}
    ELSE IF IsCreate(h[Len(h)]) THEN h[Len(h)].live \cup {h[Len(h)].handle}
    ELSE h[Len(h)].live \ {h[Len(h)].handle}

\* C16: statsCalcGetSum, statsCalcGetMean and statsCalcGetStdDev leave the
\* map as it is, insert no entry for an unknown handle, and a create that
\* follows a query returns the handle that the live handles left by the last
\* create or destroy determine.
QueryChangesNothing ==
    [][/\ call'.op \in Queries =>
            /\ statsCalculators' = statsCalculators
            /\ call'.handle \notin Live => call'.handle \notin DOMAIN statsCalculators'
       /\ (call.op \in Queries /\ call'.op = "create") =>
            /\ Live = LiveAfter(log)
            /\ ret'.n = IF LiveAfter(log) = {} THEN 0 ELSE Max(LiveAfter(log)) + 1]_vars

\* statsCalcGetMean has returned for an unknown handle above every live
\* handle, while the instances hold values.
UnknownAboveLiveQueried ==
    /\ call.op = "getMean"
    /\ Live # {}
    /\ call.handle = Max(Live) + 1
    /\ TotalSamples(statsCalculators) = 2

\* The last entry of history h about the handle is a destroy.
Destroyed(h, handle) ==
    \E i \in 1..Len(h) :
        /\ IsDestroy(h[i]) /\ h[i].handle = handle
        /\ \A j \in (i + 1)..Len(h) : h[j].handle # handle

\* C17: a handle destroyed while live is not live, appends to it change
\* nothing and queries on it return 0.0, until a create returns its value
\* again; the instance then created holds no value.
DestroyedHandleIsUnknown ==
    [][\A h \in HandleArgs :
         Destroyed(log, h) =>
           /\ h \notin Live
           /\ (call'.handle = h /\ call'.op \in {"append", "readFile"}) =>
                statsCalculators' = statsCalculators
           /\ (call'.handle = h /\ call'.op \in Queries) => ret' = Zero
           /\ (call'.op = "create" /\ ret'.n = h) =>
                /\ h \in DOMAIN statsCalculators'
                /\ statsCalculators'[h] = << >>
           /\ ~(call'.op = "create" /\ ret'.n = h) =>
                h \notin DOMAIN statsCalculators']_vars

\* statsCalcReadFile has returned for a handle that was destroyed with its
\* values and is not live, while other instances are.
DestroyedHandleRead ==
    /\ call.op = "readFile"
    /\ Destroyed(log, call.handle)
    /\ call.handle \notin Live
    /\ \E i \in 1..Len(log) :
         IsDestroy(log[i]) /\ log[i].handle = call.handle /\ log[i].hadSamples
    /\ Cardinality(Live) = 2

\* C18: a create followed at once by the destroy of the handle it returned
\* leaves the map as it was before the create, whatever handles are live, and
\* the next create returns that handle again.
CreateDestroyRestores ==
    [][/\ (before # << >> /\ call'.op = "destroy" /\ call'.handle = ret.n) =>
            /\ statsCalculators' = before[1]
            /\ \A k \in DOMAIN statsCalculators' : k < ret.n
            /\ ret.n = 0 \/ ret.n - 1 \in DOMAIN statsCalculators'
       /\ \A i \in 1..(Len(log') - 2) :
            (/\ IsCreate(log'[i])
             /\ IsDestroy(log'[i + 1]) /\ log'[i + 1].handle = log'[i].handle
             /\ IsCreate(log'[i + 2])) =>
               /\ log'[i + 2].live = log'[i].live
               /\ log'[i + 2].handle = log'[i].handle]_vars

\* The handle a create returned beside two live instances was just destroyed,
\* and the instances hold their values.
RoundTripBesideOthers ==
    /\ call.op = "destroy"
    /\ Len(log) >= 2
    /\ IsCreate(log[Len(log) - 1])
    /\ IsDestroy(log[Len(log)])
    /\ log[Len(log)].handle = log[Len(log) - 1].handle
    /\ log[Len(log)].handle = call.handle
    /\ ~log[Len(log)].hadSamples
    /\ Cardinality(Live) = 2
    /\ TotalSamples(statsCalculators) = 2

\* The sum over the values x of (count * x - sum)^2: count^2 times the sum of
\* the squared deviations of the values from sum / count.
RECURSIVE SquaredDeviations(_, _, _)
SquaredDeviations(values, count, sum) ==
    IF values = << >> THEN 0
    ELSE (count * Head(values) - sum) * (count * Head(values) - sum)
         + SquaredDeviations(Tail(values), count, sum)

\* C13: for a live handle whose instance holds values, statsCalcGetMean
\* returns sum / count and statsCalcGetStdDev the square root of the sum of
\* the squared deviations from the mean divided by count; for the values
\* 2, 4, 6 the sum is 12, the mean 4 and the standard deviation sqrt(8/3).
PopulationStatistics ==
    [][(call'.handle \in Live /\ statsCalculators[call'.handle] # << >>) =>
         LET values == statsCalculators[call'.handle]
             count == Len(values)
             sum == SumLeft(0, values)
             squares == SquaredDeviations(values, count, sum)
         IN /\ call'.op = "getMean" =>
                 /\ ret'.kind = "rat"
                 /\ ret'.n * count = sum * ret'.d
            /\ call'.op = "getStdDev" =>
                 /\ ret'.n >= 0 /\ ret'.d > 0
                 /\ \/ /\ ret'.kind = "rat"
                       /\ ret'.n * ret'.n * count * count * count
                            = squares * ret'.d * ret'.d
                    \/ /\ ret'.kind = "sqrt"
                       /\ ret'.n * count * count * count = squares * ret'.d
            /\ values = <<2, 4, 6>> =>
                 /\ call'.op = "getSum" => ret' = [kind |-> "rat", n |-> 12, d |-> 1]
                 /\ call'.op = "getMean" => ret' = [kind |-> "rat", n |-> 4, d |-> 1]
                 /\ call'.op = "getStdDev" => ret' = [kind |-> "sqrt", n |-> 8, d |-> 3]]_vars

\* statsCalcGetStdDev has returned sqrt(8/3) for the values 2, 4, 6.
DeviationOfTwoFourSix ==
    /\ call.op = "getStdDev"
    /\ call.handle \in Live
    /\ statsCalculators[call.handle] = <<2, 4, 6>>
    /\ ret = [kind |-> "sqrt", n |-> 8, d |-> 3]

====
